---- MODULE Spec2Model ----
(***************************************************************************)
(* Model of the real-time telemetry client (frontend/lib websocket        *)
(* client): the TelemetryWebSocket connection manager, its reconnect      *)
(* backoff and its message handling, driven by the application            *)
(* (connect/disconnect), by the timer queue and by the events of the      *)
(* browser WebSocket transports it opened.                                 *)
(***************************************************************************)
EXTENDS Integers, Sequences, FiniteSets, TLC

(***************************************************************************)
(* Bounds of the model                                                     *)
(***************************************************************************)
\* transports that may be alive (not yet closed) at the same time
MaxTransports == 2
\* reconnect timers that may be outstanding at the same time
MaxTimers == 2
\* largest maxReconnectAttempts passed to the constructor
MaxAttemptsBound == 2
\* calls of the API client that may be in flight at the same time
MaxCalls == 2

(***************************************************************************)
(* enum ConnectionStatus                                                   *)
(***************************************************************************)
DISCONNECTED == "disconnected"
CONNECTING == "connecting"
CONNECTED == "connected"
RECONNECTING == "reconnecting"
ERROR == "error"
ConnectionStatus == {DISCONNECTED, CONNECTING, CONNECTED, RECONNECTING, ERROR}

(***************************************************************************)
(* Close codes of the transport: 1000 normal closure (the code the manager *)
(* closes with and compares with), 1001 a clean closure by the server with *)
(* another code, 1006 the closure after a failure.                         *)
(***************************************************************************)
NormalClosure == 1000
ServerCloseCodes == {NormalClosure, 1001}
FailureCloseCodes == {1006}

(***************************************************************************)
(* Constructor defaults and the configurations the model constructs the    *)
(* manager with ("undef" is a field left out of the config object).        *)
(***************************************************************************)
DefaultMaxReconnectAttempts == 10
DefaultInitialReconnectDelay == 1000
DefaultMaxReconnectDelay == 30000
DefaultReconnectBackoffMultiplier == 2

Undefined == [defined |-> FALSE, value |-> 0]
Given(v) == [defined |-> TRUE, value |-> v]

Configs ==
    [maxReconnectAttempts : {Given(0), Given(MaxAttemptsBound)},
     initialReconnectDelay : {Undefined},
     \* a cap that the second reconnect already reaches
     maxReconnectDelay : {Given(1500)},
     reconnectBackoffMultiplier : {Undefined}]

\* the ?? operator of the constructor
OrDefault(field, default) == IF field.defined THEN field.value ELSE default

Constructor(config) ==
    [maxReconnectAttempts |->
        OrDefault(config.maxReconnectAttempts, DefaultMaxReconnectAttempts),
     initialReconnectDelay |->
        OrDefault(config.initialReconnectDelay, DefaultInitialReconnectDelay),
     maxReconnectDelay |->
        OrDefault(config.maxReconnectDelay, DefaultMaxReconnectDelay),
     reconnectBackoffMultiplier |->
        OrDefault(config.reconnectBackoffMultiplier,
                  DefaultReconnectBackoffMultiplier)]

(***************************************************************************)
(* Arithmetic helpers                                                      *)
(***************************************************************************)
Min(a, b) == IF a <= b THEN a ELSE b

RECURSIVE Pow(_, _)
Pow(b, e) == IF e = 0 THEN 1 ELSE b * Pow(b, e - 1)

(***************************************************************************)
(* Inbound message texts.  A text either fails JSON.parse or parses to a   *)
(* JavaScript value; values are tagged records.                            *)
(***************************************************************************)
JUndefined == [t |-> "undefined"]
JNull == [t |-> "null"]
JNumber(n) == [t |-> "number", n |-> n]
JString(str) == [t |-> "string", s |-> str]
JReading(ts, power, fuel, st) ==
    [t |-> "object", timestamp |-> ts, power_load_kw |-> power,
     fuel_consumption_lph |-> fuel, status |-> st]
JEnvelope(type, data) == [t |-> "object", type |-> type, data |-> data]

Unparsable == [parses |-> FALSE]
Text(value) == [parses |-> TRUE, value |-> value]

\* JavaScript truthiness and typeof of a value
Truthy(v) ==
    CASE v.t = "undefined" -> FALSE
      [] v.t = "null" -> FALSE
      [] v.t = "number" -> v.n # 0
      [] v.t = "string" -> v.s # ""
      [] OTHER -> TRUE

TypeOf(v) ==
    CASE v.t = "null" -> "object"
      [] OTHER -> v.t

\* String(value) as used for the message of a server error
StringOf(v) ==
    CASE v.t = "string" -> v.s
      [] v.t = "undefined" -> "undefined"
      [] v.t = "null" -> "null"
      [] v.t = "number" -> "number"
      [] OTHER -> "[object Object]"

ValidReading == JReading(JString("2025-01-01T00:00:00Z"), JNumber(12), JNumber(4), JString("ON"))
NoTimestampReading == JReading(JUndefined, JNumber(12), JNumber(4), JString("ON"))
OffReading == JReading(JString("2025-01-01T00:00:05Z"), JNumber(0), JNumber(0), JString("OFF"))
NumericTimestampReading == JReading(JNumber(1735689600), JNumber(12), JNumber(4), JString("ON"))
StringPowerReading == JReading(JString("2025-01-01T00:00:00Z"), JString("12"), JNumber(4), JString("ON"))
NoFuelReading == JReading(JString("2025-01-01T00:00:00Z"), JNumber(12), JUndefined, JString("ON"))
LowerCaseStatusReading == JReading(JString("2025-01-01T00:00:00Z"), JNumber(12), JNumber(4), JString("on"))

Messages ==
    { Unparsable,
      Text(JNumber(5)),
      Text(JEnvelope(JUndefined, JUndefined)),
      Text(JEnvelope(JString("telemetry"), ValidReading)),
      Text(JEnvelope(JString("telemetry"), OffReading)),
      Text(JEnvelope(JString("telemetry"), NoTimestampReading)),
      Text(JEnvelope(JString("telemetry"), NumericTimestampReading)),
      Text(JEnvelope(JString("telemetry"), StringPowerReading)),
      Text(JEnvelope(JString("telemetry"), NoFuelReading)),
      Text(JEnvelope(JString("telemetry"), LowerCaseStatusReading)),
      Text(JEnvelope(JString("error"), JString("boom"))),
      Text(JEnvelope(JString("connected"), JUndefined)),
      Text(JEnvelope(JString("heartbeat"), ValidReading)) }

\* The texts the validator is exercised with: every combination of a
\* present, missing or mistyped value in each field of a telemetry payload,
\* and the texts that fail before the payload is looked at.
Payloads ==
    { JReading(ts, power, fuel, st) :
        ts \in {JUndefined, JString(""), JString("2025-01-01T00:00:00Z"),
                JNumber(1735689600)},
        power \in {JUndefined, JNumber(12), JString("12")},
        fuel \in {JUndefined, JNumber(4), JString("4")},
        st \in {JUndefined, JString("ON"), JString("OFF"), JString("on")} }

ValidatorInputs ==
    { Text(JEnvelope(JString("telemetry"), d)) : d \in Payloads }
        \cup { Text(JEnvelope(JUndefined, d)) : d \in {ValidReading, NoTimestampReading} }
        \cup { Text(JEnvelope(JString(""), NoTimestampReading)) }
        \cup { Text(JEnvelope(JString("telemetry"), d)) :
                  d \in {JUndefined, JNull, JString("12 kW")} }
        \cup { Unparsable, Text(JNumber(5)), Text(JNull) }

Ok(v) == [ok |-> TRUE, value |-> v]
Throw(reason) == [ok |-> FALSE, reason |-> reason]

parseMessage(data) ==
    IF ~data.parses THEN Throw("Failed to parse message: JSON")
    ELSE LET parsed == data.value IN
         IF ~Truthy(parsed) \/ TypeOf(parsed) # "object"
         THEN Throw("Failed to parse message: Invalid message format")
         ELSE IF ~Truthy(parsed.type)
         THEN Throw("Failed to parse message: Message missing type field")
         ELSE Ok(parsed)

validateTelemetryData(data) ==
    IF ~Truthy(data) \/ TypeOf(data) # "object"
    THEN Throw("Invalid telemetry data: not an object")
    ELSE IF ~Truthy(data.timestamp)
    THEN Throw("Invalid telemetry data: missing timestamp")
    ELSE IF TypeOf(data.power_load_kw) # "number"
    THEN Throw("Invalid telemetry data: invalid power_load_kw")
    ELSE IF TypeOf(data.fuel_consumption_lph) # "number"
    THEN Throw("Invalid telemetry data: invalid fuel_consumption_lph")
    ELSE IF ~Truthy(data.status) \/ data.status \notin {JString("ON"), JString("OFF")}
    THEN Throw("Invalid telemetry data: invalid status")
    ELSE Ok(data)

(***************************************************************************)
(* State                                                                   *)
(***************************************************************************)
VARIABLES
    \* fields of TelemetryWebSocket
    ws,                      \* state of the transport held, "null" when none is held
    status,
    reconnectAttempts,
    reconnectTimeout,        \* TRUE when the field holds a timer (one not yet fired)
    shouldReconnect,
    policy,                  \* the four readonly configuration fields
    onMessageCallback,       \* TRUE when a callback is stored, FALSE for null
    onStatusChangeCallback,
    onErrorCallback,
    \* environment
    urlValid,                \* FALSE: the WebSocket constructor throws on the configured URL
    orphans,                 \* transports no longer held whose handlers are still bound:
                             \* state -> number of such transports
    leakedTimers,            \* outstanding timers that the field no longer holds
    \* what the last step did
    lastOp,
    inbound,                 \* the text of the message event handled by the step
    cbLog,                   \* callback invocations of the step, in order
    statusWrites,            \* values assigned to the status field by the step
    scheduled,               \* reconnects scheduled by the step
    created,                 \* transports opened by the step
    \* history
    lastNotified,            \* last value given to the status callback ("none" after a gap)
    quiesced,                \* disconnect() was called and connect() not since
    cancelled,               \* ... and a timer was outstanding at that disconnect()
    schedK,                  \* reconnects scheduled since the last connect() or open
    firstAfterOpen,          \* an open happened and no reconnect was scheduled since
    closures,                \* abnormal closures since the last connect() or open
    appCalls,                \* "none", "connect" (one connect() only), "many"
    again,                   \* the step is a disconnect() directly after a disconnect()
    \* the API client: its calls, started or not
    calls

managerVars == <<ws, status, reconnectAttempts, reconnectTimeout, shouldReconnect,
          policy, onMessageCallback, onStatusChangeCallback, onErrorCallback,
          urlValid, orphans, leakedTimers, lastOp, inbound, cbLog, statusWrites,
          scheduled, created, lastNotified, quiesced, cancelled, schedK,
          firstAfterOpen, closures, appCalls, again>>

vars == <<managerVars, calls>>

\* states of a browser WebSocket as the manager can observe them
\*   connecting  readyState CONNECTING
\*   open        readyState OPEN
\*   closingO    close() was called on an open transport
\*   closingC    close() was called on a connecting transport
\*   failed      the connection failed: error delivered, close event due
\*   failedC     the same, for a transport on which close() had been called
TransportStates ==
    {"connecting", "open", "closingO", "closingC", "failed", "failedC"}

NoOrphans == [s \in TransportStates |-> 0]

RECURSIVE SumOver(_, _)
SumOver(f, S) ==
    IF S = {} THEN 0
    ELSE LET s == CHOOSE x \in S : TRUE IN f[s] + SumOver(f, S \ {s})

\* the manager and its environment as one value, threaded through the handlers
Cur ==
    [ws |-> ws, status |-> status, reconnectAttempts |-> reconnectAttempts,
     reconnectTimeout |-> reconnectTimeout, shouldReconnect |-> shouldReconnect,
     onMessageCallback |-> onMessageCallback,
     onStatusChangeCallback |-> onStatusChangeCallback,
     onErrorCallback |-> onErrorCallback,
     orphans |-> orphans, leakedTimers |-> leakedTimers,
     cbLog |-> <<>>, statusWrites |-> <<>>, scheduled |-> <<>>, created |-> 0,
     lastNotified |-> lastNotified, schedK |-> schedK,
     firstAfterOpen |-> firstAfterOpen, overflow |-> FALSE]

\* number of transports whose events still reach the manager
LiveTransports(m) ==
    (IF m.ws = "null" THEN 0 ELSE 1) + SumOver(m.orphans, TransportStates)

\* number of timers that were neither fired nor cleared
PendingTimers(m) == (IF m.reconnectTimeout THEN 1 ELSE 0) + m.leakedTimers

Commit(m) ==
    /\ ~m.overflow
    /\ ws' = m.ws
    /\ status' = m.status
    /\ reconnectAttempts' = m.reconnectAttempts
    /\ reconnectTimeout' = m.reconnectTimeout
    /\ shouldReconnect' = m.shouldReconnect
    /\ onMessageCallback' = m.onMessageCallback
    /\ onStatusChangeCallback' = m.onStatusChangeCallback
    /\ onErrorCallback' = m.onErrorCallback
    /\ orphans' = m.orphans
    /\ leakedTimers' = m.leakedTimers
    /\ cbLog' = m.cbLog
    /\ statusWrites' = m.statusWrites
    /\ scheduled' = m.scheduled
    /\ created' = m.created
    /\ lastNotified' = m.lastNotified
    /\ schedK' = m.schedK
    /\ firstAfterOpen' = m.firstAfterOpen
    /\ UNCHANGED <<policy, urlValid, calls>>

StatusCall(s) == [cb |-> "status", status |-> s]
ErrorCall(reason) == [cb |-> "error", reason |-> reason]
MessageCall(reading) == [cb |-> "message", reading |-> reading]

(***************************************************************************)
(* Private methods                                                         *)
(***************************************************************************)
\* updateStatus without the comparison with the current value
updateStatusUnconditional(m, newStatus) ==
    LET m1 == [m EXCEPT !.status = newStatus,
                        !.statusWrites = Append(@, newStatus)]
    IN IF m1.onStatusChangeCallback
       THEN [m1 EXCEPT !.cbLog = Append(@, StatusCall(newStatus)),
                       !.lastNotified = newStatus]
       ELSE m1

updateStatus(m, newStatus) ==
    IF m.status # newStatus
    THEN LET m1 == [m EXCEPT !.status = newStatus,
                             !.statusWrites = Append(@, newStatus)]
         IN IF m1.onStatusChangeCallback
            THEN [m1 EXCEPT !.cbLog = Append(@, StatusCall(newStatus)),
                            !.lastNotified = newStatus]
            ELSE m1
    ELSE m

BackoffDelay(p, attempts) ==
    Min(p.initialReconnectDelay * Pow(p.reconnectBackoffMultiplier, attempts),
        p.maxReconnectDelay)

\* this.reconnectTimeout = setTimeout(...): a timer the field held until now
\* stays outstanding
SetTimeout(m) ==
    IF PendingTimers(m) >= MaxTimers
    THEN [m EXCEPT !.overflow = TRUE]
    ELSE [m EXCEPT !.leakedTimers = IF m.reconnectTimeout THEN @ + 1 ELSE @,
                   !.reconnectTimeout = TRUE]

\* the record of a scheduled reconnect
Scheduled(m, delay) ==
    [delay |-> delay, k |-> m.schedK, attempt |-> m.reconnectAttempts,
     firstAfterOpen |-> m.firstAfterOpen]

\* scheduleReconnect giving up one attempt late (> for >=)
scheduleReconnectOneMore(m) ==
    IF m.reconnectAttempts > policy.maxReconnectAttempts
    THEN updateStatus(m, ERROR)
    ELSE LET delay == BackoffDelay(policy, m.reconnectAttempts)
         IN SetTimeout([m EXCEPT !.reconnectAttempts = @ + 1,
                                 !.scheduled = Append(@, Scheduled(m, delay)),
                                 !.schedK = @ + 1,
                                 !.firstAfterOpen = FALSE])

\* scheduleReconnect without the increment of the attempt counter
scheduleReconnectNoIncrement(m) ==
    IF m.reconnectAttempts >= policy.maxReconnectAttempts
    THEN updateStatus(m, ERROR)
    ELSE LET delay == BackoffDelay(policy, m.reconnectAttempts)
         IN SetTimeout([m EXCEPT !.scheduled = Append(@, Scheduled(m, delay)),
                                 !.schedK = @ + 1,
                                 !.firstAfterOpen = FALSE])

\* scheduleReconnect giving up without reporting Error
scheduleReconnectSilentGiveUp(m) ==
    IF m.reconnectAttempts >= policy.maxReconnectAttempts
    THEN m
    ELSE LET delay == BackoffDelay(policy, m.reconnectAttempts)
         IN SetTimeout([m EXCEPT !.reconnectAttempts = @ + 1,
                                 !.scheduled = Append(@, Scheduled(m, delay)),
                                 !.schedK = @ + 1,
                                 !.firstAfterOpen = FALSE])

scheduleReconnect(m) ==
    IF m.reconnectAttempts >= policy.maxReconnectAttempts
    THEN updateStatus(m, ERROR)
    ELSE LET delay == BackoffDelay(policy, m.reconnectAttempts)
         IN SetTimeout([m EXCEPT !.reconnectAttempts = @ + 1,
                                 !.scheduled = Append(@, Scheduled(m, delay)),
                                 !.schedK = @ + 1,
                                 !.firstAfterOpen = FALSE])

errorCallback(m, reason) ==
    IF m.onErrorCallback
    THEN [m EXCEPT !.cbLog = Append(@, ErrorCall(reason))]
    ELSE m

handleConnectionError(m, reason) ==
    LET m1 == updateStatus(m, ERROR)
        m2 == errorCallback(m1, reason)
    IN IF m2.shouldReconnect THEN scheduleReconnect(m2) ELSE m2

\* an assignment to this.ws: the transport held until now is no longer
\* referenced, its handlers stay bound
AssignWs(m, new) ==
    IF m.ws = "null"
    THEN [m EXCEPT !.ws = new]
    ELSE [m EXCEPT !.orphans[m.ws] = @ + 1, !.ws = new]

\* this.ws = new WebSocket(wsUrl), with the four handlers bound
NewWebSocket(m) ==
    IF LiveTransports(m) >= MaxTransports
    THEN [m EXCEPT !.overflow = TRUE]
    ELSE [AssignWs(m, "connecting") EXCEPT !.created = @ + 1]

createConnection(m) ==
    LET isReconnecting == m.reconnectAttempts > 0
        m1 == updateStatus(m, IF isReconnecting THEN RECONNECTING ELSE CONNECTING)
    IN IF urlValid
       THEN NewWebSocket(m1)
       ELSE handleConnectionError(m1, "SyntaxError")

\* handleOpen without the reset of the attempt counter
handleOpenKeepsAttempts(m) == updateStatus(m, CONNECTED)

handleOpen(m) ==
    updateStatus([m EXCEPT !.reconnectAttempts = 0], CONNECTED)

handleError(m, reason) ==
    errorCallback(updateStatus(m, ERROR), reason)

\* handleMessage without the branch for the envelopes of type error
handleMessageDropsServerError(m, data) ==
    LET parsed == parseMessage(data) IN
    IF ~parsed.ok THEN handleError(m, parsed.reason)
    ELSE LET message == parsed.value IN
         IF message.type = JString("telemetry") /\ Truthy(message.data)
         THEN LET telemetry == validateTelemetryData(message.data) IN
              IF ~telemetry.ok THEN handleError(m, telemetry.reason)
              ELSE IF m.onMessageCallback
                   THEN [m EXCEPT !.cbLog = Append(@, MessageCall(telemetry.value))]
                   ELSE m
         ELSE m

\* handleMessage reporting an envelope of any other type as an error
handleMessageRejectsUnknownType(m, data) ==
    LET parsed == parseMessage(data) IN
    IF ~parsed.ok THEN handleError(m, parsed.reason)
    ELSE LET message == parsed.value IN
         IF message.type = JString("telemetry") /\ Truthy(message.data)
         THEN LET telemetry == validateTelemetryData(message.data) IN
              IF ~telemetry.ok THEN handleError(m, telemetry.reason)
              ELSE IF m.onMessageCallback
                   THEN [m EXCEPT !.cbLog = Append(@, MessageCall(telemetry.value))]
                   ELSE m
         ELSE IF message.type = JString("error")
         THEN handleError(m, StringOf(message.data))
         ELSE handleError(m, "Unknown message type")

handleMessage(m, data) ==
    LET parsed == parseMessage(data) IN
    IF ~parsed.ok THEN handleError(m, parsed.reason)
    ELSE LET message == parsed.value IN
         IF message.type = JString("telemetry") /\ Truthy(message.data)
         THEN LET telemetry == validateTelemetryData(message.data) IN
              IF ~telemetry.ok THEN handleError(m, telemetry.reason)
              ELSE IF m.onMessageCallback
                   THEN [m EXCEPT !.cbLog = Append(@, MessageCall(telemetry.value))]
                   ELSE m
         ELSE IF message.type = JString("error")
         THEN handleError(m, StringOf(message.data))
         ELSE m

\* handleClose reconnecting without looking at shouldReconnect
handleCloseIgnoresFlag(m, code) ==
    LET m1 == updateStatus(AssignWs(m, "null"), DISCONNECTED)
    IN IF code # NormalClosure
       THEN scheduleReconnect(m1)
       ELSE m1

handleClose(m, code) ==
    LET m1 == updateStatus(AssignWs(m, "null"), DISCONNECTED)
    IN IF m1.shouldReconnect /\ code # NormalClosure
       THEN scheduleReconnect(m1)
       ELSE m1

(***************************************************************************)
(* Initial state: a constructed manager, nothing connected                 *)
(***************************************************************************)
\* the last step: its kind, the close code handled, and the transport the
\* event came from (its state before the event, and whether ws held it)
Op(name, code, pre, held) ==
    [op |-> name, code |-> code, pre |-> pre, held |-> held]

\* the step handled no message event
NoMessage == [none |-> TRUE]

\* cap of the closures counter
MaxClosures == MaxAttemptsBound + 2

ManagerInit ==
    /\ ws = "null"
    /\ status = DISCONNECTED
    /\ reconnectAttempts = 0
    /\ reconnectTimeout = FALSE
    /\ shouldReconnect = TRUE
    /\ policy \in {Constructor(c) : c \in Configs}
    /\ onMessageCallback = FALSE
    /\ onStatusChangeCallback = FALSE
    /\ onErrorCallback = FALSE
    /\ urlValid \in BOOLEAN
    /\ orphans = NoOrphans
    /\ leakedTimers = 0
    /\ lastOp = Op("init", 0, "none", FALSE)
    /\ inbound = NoMessage
    /\ cbLog = <<>>
    /\ statusWrites = <<>>
    /\ scheduled = <<>>
    /\ created = 0
    /\ lastNotified = "none"
    /\ quiesced = FALSE
    /\ cancelled = FALSE
    /\ schedK = 0
    /\ firstAfterOpen = FALSE
    /\ closures = 0
    /\ appCalls = "none"
    /\ again = FALSE

(***************************************************************************)
(* The API client (frontend/lib api-client): APIClient and its calls.      *)
(* What axios settles a request with: a response with a 2xx status, or an  *)
(* AxiosError carrying the response (a status outside 2xx), only the       *)
(* request (nothing came back: connection failure or timeout), or neither  *)
(* (the request could not be set up).  In a response body an absent error  *)
(* or detail field is the empty string.                                    *)
(***************************************************************************)
maxRetries == 3
retryDelay == 1000

NoResponse == [received |-> FALSE]
Received(code, data) == [received |-> TRUE, status |-> code, data |-> data]
NoBody == [present |-> FALSE]
Body(error, detail) == [present |-> TRUE, error |-> error, detail |-> detail]

Fulfilled(data) == [fulfilled |-> TRUE, data |-> data]
AxiosError(response, request, message) ==
    [fulfilled |-> FALSE, response |-> response, request |-> request,
     message |-> message]

\* the outcomes of a request the model draws from
Outcomes ==
    { Fulfilled("readings A"),
      Fulfilled("readings B"),
      AxiosError(Received(404, Body("Not found", "No data for range")), TRUE,
                 "Request failed with status code 404"),
      AxiosError(Received(500, NoBody), TRUE,
                 "Request failed with status code 500"),
      AxiosError(Received(503, Body("", "Try again later")), TRUE,
                 "Request failed with status code 503"),
      AxiosError(NoResponse, TRUE, "Network Error"),
      AxiosError(NoResponse, TRUE, "timeout of 30000ms exceeded"),
      AxiosError(NoResponse, FALSE, "Invalid URL") }

\* the outcomes of the model of several calls in flight
FewOutcomes ==
    { o \in Outcomes :
        \/ o = Fulfilled("readings A")
        \/ (~o.fulfilled /\ o.response.received /\ o.response.status \in {404, 503}) }

\* a || b on strings
OrElse(a, b) == IF a # "" THEN a ELSE b

APIClientError(message, statusCode, detail) ==
    [name |-> "APIClientError", message |-> message,
     statusCode |-> statusCode, detail |-> detail]

\* handleError throwing the error of a failure with no response at all as
\* the error of an unreachable server
handleErrorNoSetupCase(error) ==
    IF error.response.received
    THEN LET data == error.response.data
             message == OrElse(IF data.present THEN data.error ELSE "",
                               "An error occurred")
             detail == OrElse(IF data.present THEN data.detail ELSE "",
                              error.message)
         IN APIClientError(message, Given(error.response.status), detail)
    ELSE APIClientError(
             "Unable to reach the server. Please check your connection.",
             Undefined, "Network error")

\* the response interceptor: the error it throws
rejectedResponse(error) ==
    IF error.response.received
    THEN LET data == error.response.data
             message == OrElse(IF data.present THEN data.error ELSE "",
                               "An error occurred")
             detail == OrElse(IF data.present THEN data.detail ELSE "",
                              error.message)
         IN APIClientError(message, Given(error.response.status), detail)
    ELSE IF error.request
    THEN APIClientError(
             "Unable to reach the server. Please check your connection.",
             Undefined, "Network error")
    ELSE APIClientError("Failed to make request", Undefined, error.message)

isRetryableError(error) ==
    /\ error.name = "APIClientError"
    /\ \/ ~error.statusCode.defined
       \/ error.statusCode.value = 0
       \/ error.statusCode.value >= 500

GetMethods == {"getHistoricalData", "getLatestReading"}
Methods == GetMethods \cup {"requestOptimization", "healthCheck"}

\* every method sent through retryRequest
usesRetryRequestAll(method) == TRUE

\* the methods that wrap their request in retryRequest
usesRetryRequest(method) == method \in GetMethods

\* a call of the client: where it is, the retries parameter of the
\* retryRequest invocation it is in, and what it did so far
IdleCall ==
    [pc |-> "idle", method |-> "none", retries |-> 0, attempts |-> 0,
     outcomes |-> <<>>, delays |-> <<>>, result |-> [settled |-> FALSE]]

Return(value) == [settled |-> TRUE, returned |-> TRUE, value |-> value]
Raise(error) == [settled |-> TRUE, returned |-> FALSE, error |-> error]

CallIds == 1..MaxCalls

ClientInit == calls = [i \in CallIds |-> IdleCall]

\* the method is called: its request function runs for the first time
startCall(cs, i, method) ==
    [cs EXCEPT ![i] = [IdleCall EXCEPT !.pc = "requesting",
                                       !.method = method,
                                       !.retries = IF usesRetryRequest(method)
                                                   THEN maxRetries ELSE 0,
                                       !.attempts = 1]]

\* the value a method returns from a fulfilled request
returnValue(method, outcome) ==
    IF method = "healthCheck" THEN "true" ELSE outcome.data

\* retryRequest's catch with retries > 1 for retries > 0
requestFailedOneRetryLess(cs, i, error) ==
    IF cs[i].method = "healthCheck"
    THEN [cs EXCEPT ![i].pc = "returned", ![i].result = Return("false")]
    ELSE IF usesRetryRequest(cs[i].method)
            /\ cs[i].retries > 1 /\ isRetryableError(error)
    THEN [cs EXCEPT ![i].pc = "waiting", ![i].delays = Append(@, retryDelay)]
    ELSE [cs EXCEPT ![i].pc = "raised", ![i].result = Raise(error)]

\* retryRequest's catch throwing the error of the first attempt
requestFailedRaisesFirst(cs, i, error) ==
    IF cs[i].method = "healthCheck"
    THEN [cs EXCEPT ![i].pc = "returned", ![i].result = Return("false")]
    ELSE IF usesRetryRequest(cs[i].method)
            /\ cs[i].retries > 0 /\ isRetryableError(error)
    THEN [cs EXCEPT ![i].pc = "waiting", ![i].delays = Append(@, retryDelay)]
    ELSE [cs EXCEPT ![i].pc = "raised",
                    ![i].result = Raise(rejectedResponse(cs[i].outcomes[1]))]

\* healthCheck without its catch: the error reaches the caller
requestFailedUncaught(cs, i, error) ==
    IF usesRetryRequest(cs[i].method)
       /\ cs[i].retries > 0 /\ isRetryableError(error)
    THEN [cs EXCEPT ![i].pc = "waiting", ![i].delays = Append(@, retryDelay)]
    ELSE [cs EXCEPT ![i].pc = "raised", ![i].result = Raise(error)]

\* the request of call i was rejected with error: the catch of retryRequest,
\* of healthCheck, or the caller
requestFailed(cs, i, error) ==
    IF cs[i].method = "healthCheck"
    THEN [cs EXCEPT ![i].pc = "returned", ![i].result = Return("false")]
    ELSE IF usesRetryRequest(cs[i].method)
            /\ cs[i].retries > 0 /\ isRetryableError(error)
    THEN [cs EXCEPT ![i].pc = "waiting", ![i].delays = Append(@, retryDelay)]
    ELSE [cs EXCEPT ![i].pc = "raised", ![i].result = Raise(error)]

requestSettled(cs, i, outcome) ==
    LET cs1 == [cs EXCEPT ![i].outcomes = Append(@, outcome)]
    IN IF outcome.fulfilled
       THEN [cs1 EXCEPT ![i].pc = "returned",
                        ![i].result = Return(returnValue(cs[i].method, outcome))]
       ELSE requestFailed(cs1, i, rejectedResponse(outcome))

\* the delay is over with one retry budget for all calls in flight
retryAfterDelayShared(cs, i) ==
    [j \in DOMAIN cs |->
        IF j = i
        THEN [cs[j] EXCEPT !.pc = "requesting", !.retries = @ - 1,
                           !.attempts = @ + 1]
        ELSE [cs[j] EXCEPT !.retries = IF @ > 0 THEN @ - 1 ELSE @]]

\* the delay is over: retryRequest(requestFn, retries - 1)
retryAfterDelay(cs, i) ==
    [cs EXCEPT ![i].pc = "requesting", ![i].retries = @ - 1,
               ![i].attempts = @ + 1]

Init == ManagerInit /\ ClientInit

(***************************************************************************)
(* Public methods, called by the application                               *)
(***************************************************************************)
\* connect() starting over with the attempt counter at 0
connectResetsAttempts(m, onStatusChange, onError) ==
    createConnection([m EXCEPT !.onMessageCallback = TRUE,
                               !.onStatusChangeCallback = onStatusChange,
                               !.onErrorCallback = onError,
                               !.shouldReconnect = TRUE,
                               !.reconnectAttempts = 0,
                               !.lastNotified = IF onStatusChange THEN @ ELSE "none",
                               !.schedK = 0])

connect(m, onStatusChange, onError) ==
    createConnection([m EXCEPT !.onMessageCallback = TRUE,
                               !.onStatusChangeCallback = onStatusChange,
                               !.onErrorCallback = onError,
                               !.shouldReconnect = TRUE,
                               !.lastNotified = IF onStatusChange THEN @ ELSE "none",
                               !.schedK = 0])

\* WebSocket.close(): a no-op once the transport is closing or closed
CloseTransport(st) ==
    CASE st = "connecting" -> "closingC"
      [] st = "open" -> "closingO"
      [] OTHER -> st

\* disconnect() notifying the status callback on every call
disconnectAlwaysNotifies(m) ==
    LET m1 == [m EXCEPT !.shouldReconnect = FALSE]
        m2 == IF m1.reconnectTimeout
              THEN [m1 EXCEPT !.reconnectTimeout = FALSE]
              ELSE m1
        m3 == IF m2.ws # "null"
              THEN [m2 EXCEPT !.orphans[CloseTransport(m2.ws)] = @ + 1,
                              !.ws = "null"]
              ELSE m2
        m4 == updateStatusUnconditional(m3, DISCONNECTED)
    IN [m4 EXCEPT !.reconnectAttempts = 0]

disconnect(m) ==
    LET m1 == [m EXCEPT !.shouldReconnect = FALSE]
        m2 == IF m1.reconnectTimeout
              THEN [m1 EXCEPT !.reconnectTimeout = FALSE]
              ELSE m1
        m3 == IF m2.ws # "null"
              THEN [m2 EXCEPT !.orphans[CloseTransport(m2.ws)] = @ + 1,
                              !.ws = "null"]
              ELSE m2
        m4 == updateStatus(m3, DISCONNECTED)
    IN [m4 EXCEPT !.reconnectAttempts = 0]

\* The browser fires the error event and the close event of a failed
\* connection in one task: nothing else runs between the two handlers.
NoCloseDue ==
    /\ ws \notin {"failed", "failedC"}
    /\ orphans["failed"] = 0
    /\ orphans["failedC"] = 0

Connect(onStatusChange, onError) ==
    /\ NoCloseDue
    /\ Commit(connect(Cur, onStatusChange, onError))
    /\ lastOp' = Op("connect", 0, "none", FALSE)
    /\ inbound' = NoMessage
    /\ quiesced' = FALSE
    /\ cancelled' = FALSE
    /\ closures' = 0
    /\ appCalls' = IF appCalls = "none" THEN "connect" ELSE "many"
    /\ again' = FALSE

Disconnect ==
    /\ NoCloseDue
    /\ Commit(disconnect(Cur))
    /\ lastOp' = Op("disconnect", 0, "none", FALSE)
    /\ inbound' = NoMessage
    /\ quiesced' = TRUE
    /\ cancelled' = (PendingTimers(Cur) > 0 \/ (quiesced /\ cancelled))
    /\ appCalls' = "many"
    /\ again' = (lastOp.op = "disconnect")
    /\ UNCHANGED closures

(***************************************************************************)
(* The timer callback of scheduleReconnect                                 *)
(***************************************************************************)
timerCallback(m) == createConnection([m EXCEPT !.reconnectTimeout = FALSE])

\* a timer fires: the one the field holds, or one it no longer holds; the
\* callback of the latter clears the field all the same
Fire(m, held) ==
    IF held
    THEN m
    ELSE [m EXCEPT !.leakedTimers = IF m.reconnectTimeout THEN @ ELSE @ - 1]

TimerFire(held) ==
    /\ NoCloseDue
    /\ IF held THEN reconnectTimeout ELSE leakedTimers > 0
    /\ Commit(timerCallback(Fire(Cur, held)))
    /\ lastOp' = Op("timer", 0, "none", held)
    /\ inbound' = NoMessage
    /\ again' = FALSE
    /\ UNCHANGED <<quiesced, cancelled, closures, appCalls>>

(***************************************************************************)
(* Events of the transports, delivered to the bound handlers.  An event    *)
(* comes from the transport held in ws (held) or from one of the orphans   *)
(* in state st.                                                            *)
(***************************************************************************)
Has(held, st) == IF held THEN ws = st ELSE orphans[st] > 0

\* the transport moves from state st to state new
Move(m, held, st, new) ==
    IF held
    THEN [m EXCEPT !.ws = new]
    ELSE [m EXCEPT !.orphans = [@ EXCEPT ![st] = @ - 1, ![new] = @ + 1]]

\* the transport is closed: no event of it follows
Remove(m, held, st) ==
    IF held
    THEN [m EXCEPT !.ws = "null"]
    ELSE [m EXCEPT !.orphans[st] = @ - 1]

TransportOpen(held) ==
    /\ NoCloseDue
    /\ Has(held, "connecting")
    /\ Commit(handleOpen([Move(Cur, held, "connecting", "open")
                             EXCEPT !.schedK = 0, !.firstAfterOpen = TRUE]))
    /\ lastOp' = Op("open", 0, "connecting", held)
    /\ inbound' = NoMessage
    /\ closures' = 0
    /\ again' = FALSE
    /\ UNCHANGED <<quiesced, cancelled, appCalls>>

\* a message event is delivered only while readyState is OPEN
TransportMessage(held, data) ==
    /\ NoCloseDue
    /\ Has(held, "open")
    /\ Commit(handleMessage(Cur, data))
    /\ lastOp' = Op("message", 0, "open", held)
    /\ inbound' = data
    /\ again' = FALSE
    /\ UNCHANGED <<quiesced, cancelled, closures, appCalls>>

FailTransport(st) ==
    IF st \in {"closingO", "closingC"} THEN "failedC" ELSE "failed"

TransportError(held, st) ==
    /\ NoCloseDue
    /\ st \in {"connecting", "open", "closingO", "closingC"}
    /\ Has(held, st)
    /\ Commit(handleError(Move(Cur, held, st, FailTransport(st)),
                          "WebSocket error"))
    /\ lastOp' = Op("error", 0, st, held)
    /\ inbound' = NoMessage
    /\ again' = FALSE
    /\ UNCHANGED <<quiesced, cancelled, closures, appCalls>>

\* the codes a close event can carry, by the state of the transport
CloseCodes(st) ==
    CASE st \in {"failed", "failedC"} -> FailureCloseCodes
      [] st = "open" -> ServerCloseCodes
      [] st = "closingO" -> {NormalClosure}
      [] OTHER -> {}

TransportClose(held, st, code) ==
    /\ NoCloseDue \/ st \in {"failed", "failedC"}
    /\ Has(held, st)
    /\ code \in CloseCodes(st)
    /\ Commit(handleClose(Remove(Cur, held, st), code))
    /\ lastOp' = Op("close", code, st, held)
    /\ inbound' = NoMessage
    /\ closures' = IF code # NormalClosure
                   THEN Min(closures + 1, MaxClosures)
                   ELSE closures
    /\ again' = FALSE
    /\ UNCHANGED <<quiesced, cancelled, appCalls>>

\* the optional callbacks given to connect(): <<onStatusChange, onError>>
CallbackArgs == {<<TRUE, TRUE>>, <<FALSE, FALSE>>}

Next ==
    \/ \E cbs \in CallbackArgs : Connect(cbs[1], cbs[2])
    \/ Disconnect
    \/ \E held \in BOOLEAN : TimerFire(held)
    \/ \E held \in BOOLEAN : TransportOpen(held)
    \/ \E held \in BOOLEAN, data \in Messages : TransportMessage(held, data)
    \/ \E held \in BOOLEAN, st \in TransportStates : TransportError(held, st)
    \/ \E held \in BOOLEAN, st \in TransportStates,
          code \in ServerCloseCodes \cup FailureCloseCodes :
          TransportClose(held, st, code)

Spec == Init /\ [][Next]_vars

(***************************************************************************)
(* The validator at work: a manager that connect(onMessage, onStatus,      *)
(* onError) connected and whose transport has opened receives texts of     *)
(* every shape.                                                            *)
(***************************************************************************)
ConnectedManager ==
    /\ ws = "open"
    /\ status = CONNECTED
    /\ reconnectAttempts = 0
    /\ reconnectTimeout = FALSE
    /\ shouldReconnect = TRUE
    /\ policy = Constructor([maxReconnectAttempts |-> Given(MaxAttemptsBound),
                             initialReconnectDelay |-> Undefined,
                             maxReconnectDelay |-> Given(1500),
                             reconnectBackoffMultiplier |-> Undefined])
    /\ onMessageCallback = TRUE
    /\ onStatusChangeCallback = TRUE
    /\ onErrorCallback = TRUE
    /\ urlValid = TRUE
    /\ orphans = NoOrphans
    /\ leakedTimers = 0
    /\ lastOp = Op("open", 0, "connecting", TRUE)
    /\ inbound = NoMessage
    /\ cbLog = <<StatusCall(CONNECTED)>>
    /\ statusWrites = <<CONNECTED>>
    /\ scheduled = <<>>
    /\ created = 0
    /\ lastNotified = CONNECTED
    /\ quiesced = FALSE
    /\ cancelled = FALSE
    /\ schedK = 0
    /\ firstAfterOpen = TRUE
    /\ closures = 0
    /\ appCalls = "connect"
    /\ again = FALSE

ValidatorNext == \E data \in ValidatorInputs : TransportMessage(TRUE, data)

ValidatorInit == ConnectedManager /\ ClientInit

ValidatorSpec == ValidatorInit /\ [][ValidatorNext]_vars

(***************************************************************************)
(* The manager left alone with a server that cannot be reached: the        *)
(* application calls connect() (at most twice) and nothing else, no        *)
(* transport ever opens, every connection attempt fails.  setTimeout runs  *)
(* every timer that is not cleared, and the browser delivers the error and *)
(* the close event of every connection that fails.                         *)
(***************************************************************************)
FirstConnects(onStatusChange, onError) ==
    /\ appCalls \in {"none", "connect"}
    /\ Connect(onStatusChange, onError)

RetryNext ==
    \/ \E cbs \in CallbackArgs : FirstConnects(cbs[1], cbs[2])
    \/ \E held \in BOOLEAN : TimerFire(held)
    \/ \E held \in BOOLEAN : TransportError(held, "connecting")
    \/ \E held \in BOOLEAN : TransportClose(held, "failed", 1006)

RetrySpec ==
    /\ Init
    /\ [][RetryNext]_vars
    /\ WF_vars(\E held \in BOOLEAN : TimerFire(held))
    /\ WF_vars(\E held \in BOOLEAN : TransportError(held, "connecting"))
    /\ WF_vars(\E held \in BOOLEAN : TransportClose(held, "failed", 1006))

(***************************************************************************)
(* The API client on its own: the application calls a method, axios        *)
(* settles the request in flight, the delay before a retry runs out.       *)
(***************************************************************************)
Call(i, method) ==
    /\ calls[i].pc = "idle"
    /\ calls' = startCall(calls, i, method)
    /\ UNCHANGED managerVars

Respond(i, outcome) ==
    /\ calls[i].pc = "requesting"
    /\ calls' = requestSettled(calls, i, outcome)
    /\ UNCHANGED managerVars

DelayElapsed(i) ==
    /\ calls[i].pc = "waiting"
    /\ calls' = retryAfterDelay(calls, i)
    /\ UNCHANGED managerVars

\* the connection manager is constructed and not used
ApiInit ==
    /\ Init
    /\ urlValid
    /\ policy.maxReconnectAttempts = MaxAttemptsBound

\* one call, every outcome of every attempt
ApiNext ==
    \/ \E method \in Methods : Call(1, method)
    \/ \E outcome \in Outcomes : Respond(1, outcome)
    \/ DelayElapsed(1)

ApiSpec == ApiInit /\ [][ApiNext]_vars

\* several calls in flight, their steps interleaved
ConcurrentNext ==
    \/ \E i \in CallIds, method \in {"getLatestReading", "requestOptimization"} :
          Call(i, method)
    \/ \E i \in CallIds, outcome \in FewOutcomes : Respond(i, outcome)
    \/ \E i \in CallIds : DelayElapsed(i)

ConcurrentSpec == ApiInit /\ [][ConcurrentNext]_vars

CallTypeOK ==
    \A i \in CallIds :
        /\ calls[i].pc \in {"idle", "requesting", "waiting", "returned", "raised"}
        /\ calls[i].method \in Methods \cup {"none"}
        /\ calls[i].retries \in 0..maxRetries
        /\ calls[i].attempts \in 0..(maxRetries + 1)
        /\ Len(calls[i].outcomes) \in {calls[i].attempts - 1, calls[i].attempts}
        /\ calls[i].result.settled = (calls[i].pc \in {"returned", "raised"})

TypeOK ==
    /\ ws \in {"null", "connecting", "open", "failed"}
    /\ status \in ConnectionStatus
    /\ reconnectAttempts \in 0..policy.maxReconnectAttempts
    /\ reconnectTimeout \in BOOLEAN
    /\ leakedTimers \in 0..MaxTimers
    /\ orphans \in [TransportStates -> 0..MaxTransports]
    /\ LiveTransports(Cur) <= MaxTransports
    /\ PendingTimers(Cur) <= MaxTimers
    /\ inbound \in Messages \cup ValidatorInputs \cup {NoMessage}
    /\ (lastOp.op = "message") = (inbound # NoMessage)
    /\ again \in BOOLEAN

(***************************************************************************)
(* Helpers of the properties                                               *)
(***************************************************************************)
\* the values given to the status callback by a step, in order
StatusCalls(log) ==
    LET sel == SelectSeq(log, LAMBDA c : c.cb = "status")
    IN [i \in 1..Len(sel) |-> sel[i].status]

ErrorCalls(log) == SelectSeq(log, LAMBDA c : c.cb = "error")

Range(seq) == {seq[i] : i \in 1..Len(seq)}

\* the step handled a close event with a code other than 1000
AbnormalClose(op) == op.op = "close" /\ op.code # NormalClosure

\* the step ran createConnection and the WebSocket constructor threw
OpenFailure(op) == op.op \in {"connect", "timer"} /\ ~urlValid

\* exactly one connect() on a fresh manager, and no other application call
SingleConnect == appCalls = "connect"

(***************************************************************************)
(* C1: once disconnect() was called with a reconnect timer outstanding, no *)
(* timer is left, no timer fires, no transport is opened, the status       *)
(* callback gets neither Connecting nor Reconnecting, and disconnect()     *)
(* leaves the status Disconnected (until the next connect()).              *)
(***************************************************************************)
C1_DisconnectCancelsTimer ==
    cancelled =>
        /\ PendingTimers(Cur) = 0
        /\ lastOp.op # "timer"
        /\ created = 0
        /\ Range(StatusCalls(cbLog)) \cap {CONNECTING, RECONNECTING} = {}
        /\ (lastOp.op = "disconnect" => status = DISCONNECTED)

(***************************************************************************)
(* C2: between the return of disconnect() and the next connect() no step   *)
(* invokes a message, status or error callback, and disconnect() leaves    *)
(* the status Disconnected.                                                *)
(***************************************************************************)
C2_NoCallbackAfterDisconnect ==
    quiesced =>
        /\ (lastOp.op # "disconnect" => cbLog = <<>>)
        /\ (lastOp.op = "disconnect" => status = DISCONNECTED)

(***************************************************************************)
(* C3 as stated: after a single connect(), at the maxAttempts-th           *)
(* consecutive abnormal closure the status is Error and no timer is        *)
(* pending.                                                                *)
(***************************************************************************)
C3_ErrorAfterMaxAttemptsClosures ==
    (/\ SingleConnect
     /\ policy.maxReconnectAttempts >= 1
     /\ closures = policy.maxReconnectAttempts)
        => (AbnormalClose(lastOp) => status = ERROR /\ PendingTimers(Cur) = 0)

(***************************************************************************)
(* C3 amended: an abnormal closure handled with should-reconnect true and  *)
(* the attempt counter at maxAttempts sets the status to Error and         *)
(* schedules nothing.  After a single connect() on a fresh manager this is *)
(* the (maxAttempts+1)-th consecutive abnormal closure: there the status   *)
(* is Error, no timer and no transport is left and only the application    *)
(* can take a further step; every earlier abnormal closure leaves the      *)
(* status Disconnected with one reconnect timer pending.                   *)
(***************************************************************************)
C3_ErrorAfterBudgetExhausted ==
    [][ /\ AbnormalClose(lastOp') =>
            /\ (shouldReconnect /\ reconnectAttempts >= policy.maxReconnectAttempts)
                  => (status' = ERROR /\ scheduled' = <<>> /\ PendingTimers(Cur)' = PendingTimers(Cur))
            /\ (SingleConnect /\ closures' = policy.maxReconnectAttempts + 1)
                  => (status' = ERROR /\ PendingTimers(Cur)' = 0 /\ LiveTransports(Cur)' = 0)
            /\ (SingleConnect /\ closures' <= policy.maxReconnectAttempts)
                  => (status' = DISCONNECTED /\ reconnectTimeout' /\ PendingTimers(Cur)' = 1)
        /\ (SingleConnect /\ closures = policy.maxReconnectAttempts + 1)
              => lastOp'.op \in {"connect", "disconnect"}
      ]_vars

C3_Witness ==
    /\ SingleConnect
    /\ policy.maxReconnectAttempts = MaxAttemptsBound
    /\ closures = policy.maxReconnectAttempts + 1
    /\ AbnormalClose(lastOp)
    /\ status = ERROR

(***************************************************************************)
(* C4: every reconnect is scheduled with the delay                         *)
(* min(initialDelayMs * backoffMultiplier^k, maxDelayMs), k being the      *)
(* number of reconnects scheduled since the last connect() or successful   *)
(* open; no delay exceeds maxDelayMs; the default policy gives 1000, 2000, *)
(* 4000, 8000, 16000, 30000, 30000.                                        *)
(***************************************************************************)
DefaultPolicy ==
    Constructor([maxReconnectAttempts |-> Undefined,
                 initialReconnectDelay |-> Undefined,
                 maxReconnectDelay |-> Undefined,
                 reconnectBackoffMultiplier |-> Undefined])

C4_DelayOfKthReconnect ==
    /\ \A i \in 1..Len(scheduled) :
          /\ scheduled[i].delay =
                Min(policy.initialReconnectDelay
                      * Pow(policy.reconnectBackoffMultiplier, scheduled[i].k),
                    policy.maxReconnectDelay)
          /\ scheduled[i].delay <= policy.maxReconnectDelay
    /\ [k \in 0..6 |-> BackoffDelay(DefaultPolicy, k)]
          = [k \in 0..6 |-> <<1000, 2000, 4000, 8000, 16000, 30000, 30000>>[k + 1]]

(***************************************************************************)
(* C5: a step handling a successful open leaves the attempt counter 0 and  *)
(* the status Connected, and the first reconnect scheduled after an open   *)
(* has delay initialDelayMs and is counted as attempt 1 of maxAttempts.    *)
(***************************************************************************)
C5_OpenResetsBackoff ==
    /\ lastOp.op = "open" => (reconnectAttempts = 0 /\ status = CONNECTED)
    /\ \A i \in 1..Len(scheduled) :
          scheduled[i].firstAfterOpen =>
             /\ scheduled[i].delay = policy.initialReconnectDelay
             /\ scheduled[i].attempt = 0
             /\ reconnectAttempts = 1

C5_Witness ==
    /\ AbnormalClose(lastOp)
    /\ Len(scheduled) = 1
    /\ scheduled[1].firstAfterOpen
    /\ closures = 1
    /\ schedK = 1

(***************************************************************************)
(* C6 as stated: an abnormal closure or open failure handled with          *)
(* should-reconnect true and the counter below maxAttempts schedules one   *)
(* reconnect, increments the counter and leaves the status Reconnecting    *)
(* (Connecting); the status is Reconnecting (Connecting) whenever the      *)
(* manager holds a pending reconnect timer.                                *)
(***************************************************************************)
ReconnectTrigger ==
    /\ AbnormalClose(lastOp') \/ OpenFailure(lastOp')
    /\ shouldReconnect'
    /\ reconnectAttempts < policy.maxReconnectAttempts

C7_ErrorOnlyWhenExhausted ==
    /\ [](status = ERROR =>
            /\ PendingTimers(Cur) = 0
            /\ ws = "null"
            /\ orphans["open"] = 0
            /\ orphans["connecting"] = 0)
    /\ [][status = ERROR /\ status' # ERROR
            => lastOp'.op \in {"connect", "disconnect"}]_vars

(***************************************************************************)
(* C8: a step handling an error event of a transport while the status is   *)
(* Connected or Connecting invokes the error callback (when one is         *)
(* registered) and leaves the status unchanged.                            *)
(***************************************************************************)
C8_ErrorEventKeepsStatus ==
    [][lastOp'.op = "error" /\ status \in {CONNECTED, CONNECTING} =>
          /\ status' = status
          /\ (onErrorCallback => Len(ErrorCalls(cbLog')) = 1)]_vars

(***************************************************************************)
(* C9: a step handling a close event with code 1000 leaves the status      *)
(* Disconnected and schedules no reconnect; after the close event of a     *)
(* transport closed by disconnect(), with no connect() since, no reconnect *)
(* timer is outstanding.                                                   *)
(***************************************************************************)
C9_NormalClosureNoReconnect ==
    (lastOp.op = "close" /\ lastOp.code = NormalClosure) =>
        /\ status = DISCONNECTED
        /\ scheduled = <<>>
        /\ (lastOp.pre = "closingO" /\ quiesced => PendingTimers(Cur) = 0)

(***************************************************************************)
(* C10: in every step taken with a status callback registered, the values  *)
(* given to the callback are, in order, exactly the values the status      *)
(* field took; each differs from the value before it, the field ends with  *)
(* the last one, and the first differs from the previous notification.     *)
(***************************************************************************)
C10_StatusNotifiedOnChange ==
    [][onStatusChangeCallback' =>
          /\ StatusCalls(cbLog') = statusWrites'
          /\ \A i \in 1..Len(statusWrites') :
                statusWrites'[i] # (IF i = 1 THEN status ELSE statusWrites'[i - 1])
          /\ status' = (IF statusWrites' = <<>> THEN status
                        ELSE statusWrites'[Len(statusWrites')])
          /\ lastNotified' = (IF statusWrites' = <<>> THEN lastNotified ELSE status')
          /\ (statusWrites' # <<>> => statusWrites'[1] # lastNotified)]_vars

C10_Witness ==
    /\ onStatusChangeCallback
    /\ lastOp.op = "close"
    /\ StatusCalls(cbLog) = <<DISCONNECTED, ERROR>>

(***************************************************************************)
(* The wire format as the specification of the envelope validator states   *)
(* it: an envelope is an object with a non-empty type; a telemetry reading *)
(* has a non-empty string timestamp, numeric power_load_kw and             *)
(* fuel_consumption_lph, and status ON or OFF.                             *)
(***************************************************************************)
MessageCalls(log) == SelectSeq(log, LAMBDA c : c.cb = "message")

NonEmptyString(v) == v.t = "string" /\ v.s # ""

WellFormedEnvelope(text) ==
    /\ text.parses
    /\ text.value.t = "object"
    /\ NonEmptyString(text.value.type)

WellTypedReading(d) ==
    /\ NonEmptyString(d.timestamp)
    /\ d.power_load_kw.t = "number"
    /\ d.fuel_consumption_lph.t = "number"
    /\ d.status \in {JString("ON"), JString("OFF")}

ValidTelemetry(text) ==
    /\ WellFormedEnvelope(text)
    /\ text.value.type = JString("telemetry")
    /\ text.value.data.t = "object"
    /\ WellTypedReading(text.value.data)

\* unparsable, not an object, no type, or a telemetry envelope whose data
\* object lacks or mistypes a field
InvalidMessage(text) ==
    \/ ~WellFormedEnvelope(text)
    \/ /\ text.value.type = JString("telemetry")
       /\ text.value.data.t = "object"
       /\ ~WellTypedReading(text.value.data)

ErrorEnvelope(text) ==
    WellFormedEnvelope(text) /\ text.value.type = JString("error")

(***************************************************************************)
(* C11: a step handling a structurally valid telemetry envelope invokes    *)
(* the message callback exactly once, with the reading of the envelope,    *)
(* and not the error callback; no other step invokes the message callback, *)
(* so the invocations are the valid telemetry messages in arrival order.   *)
(***************************************************************************)
C11_ValidTelemetryDeliveredOnce ==
    IF lastOp.op = "message" /\ ValidTelemetry(inbound)
    THEN /\ MessageCalls(cbLog) = <<MessageCall(inbound.value.data)>>
         /\ ErrorCalls(cbLog) = <<>>
    ELSE MessageCalls(cbLog) = <<>>

(***************************************************************************)
(* C12: a step handling a structurally invalid message invokes the error   *)
(* callback (when one is registered) and not the message callback.         *)
(***************************************************************************)
C12_InvalidMessageToErrorCallback ==
    (lastOp.op = "message" /\ InvalidMessage(inbound)) =>
        /\ MessageCalls(cbLog) = <<>>
        /\ (onErrorCallback => Len(ErrorCalls(cbLog)) = 1)

(***************************************************************************)
(* C13: a step handling a structurally invalid message invokes neither the *)
(* status nor the message callback and leaves the status, the transport    *)
(* handle, the attempt counter and the reconnect timer as they were; a     *)
(* manager that was Connected is Connected after it.                       *)
(***************************************************************************)
C13_InvalidMessageKeepsConnection ==
    [][(lastOp'.op = "message" /\ InvalidMessage(inbound')) =>
          /\ StatusCalls(cbLog') = <<>>
          /\ MessageCalls(cbLog') = <<>>
          /\ status' = status
          /\ ws' = ws
          /\ reconnectAttempts' = reconnectAttempts
          /\ reconnectTimeout' = reconnectTimeout
          /\ leakedTimers' = leakedTimers
          /\ (status = CONNECTED => status' = CONNECTED)]_vars

(***************************************************************************)
(* C14: a step handling an envelope of type error invokes the error        *)
(* callback exactly once (when one is registered), with the text of the    *)
(* envelope's data, and does not invoke the message callback.              *)
(***************************************************************************)
C14_ErrorEnvelopeToErrorCallback ==
    (lastOp.op = "message" /\ ErrorEnvelope(inbound)) =>
        /\ MessageCalls(cbLog) = <<>>
        /\ ErrorCalls(cbLog) =
              (IF onErrorCallback
               THEN <<ErrorCall(StringOf(inbound.value.data))>>
               ELSE <<>>)

C14_Witness ==
    /\ lastOp.op = "message"
    /\ inbound = Text(JEnvelope(JString("error"), JString("boom")))
    /\ onErrorCallback
    /\ ErrorCalls(cbLog) = <<ErrorCall("boom")>>

(***************************************************************************)
(* C15: when connect() returns, the message callback is stored,            *)
(* should-reconnect is true and, the URL being one the transport accepts,  *)
(* one transport was opened and is held, the attempt counter is 0 and the  *)
(* status is Connecting.                                                   *)
(***************************************************************************)
C15_ConnectResetsAndOpens ==
    lastOp.op = "connect" =>
        /\ onMessageCallback
        /\ shouldReconnect
        /\ urlValid =>
              /\ created = 1
              /\ ws = "connecting"
              /\ reconnectAttempts = 0
              /\ status = CONNECTING

(***************************************************************************)
(* C16: when disconnect() returns, should-reconnect is false, no reconnect *)
(* timer is outstanding, no transport handle is held, no transport of the  *)
(* manager is left open or connecting without having been closed, the      *)
(* status is Disconnected and the attempt counter is 0.                    *)
(***************************************************************************)
C16_DisconnectReleasesAll ==
    lastOp.op = "disconnect" =>
        /\ ~shouldReconnect
        /\ PendingTimers(Cur) = 0
        /\ ws = "null"
        /\ orphans["connecting"] = 0
        /\ orphans["open"] = 0
        /\ status = DISCONNECTED
        /\ reconnectAttempts = 0

(***************************************************************************)
(* C17: at most one reconnect timer is outstanding in every reachable      *)
(* state.                                                                  *)
(***************************************************************************)
C17_AtMostOneTimer == PendingTimers(Cur) <= 1

(***************************************************************************)
(* C18: at most one transport that is open or connecting has its handlers  *)
(* delivering to the manager, and it is the one the manager holds.         *)
(***************************************************************************)
C18_AtMostOneLiveTransport ==
    /\ orphans["connecting"] = 0
    /\ orphans["open"] = 0

(***************************************************************************)
(* C19: should-reconnect becomes true only in connect(); from a            *)
(* disconnect() to the next connect() it is false and no step schedules a  *)
(* reconnect.                                                              *)
(***************************************************************************)
C19_NoReviveAfterDisconnect ==
    /\ [][(shouldReconnect' /\ ~shouldReconnect) => lastOp'.op = "connect"]_vars
    /\ [](quiesced => (~shouldReconnect /\ scheduled = <<>>))

C19_Witness ==
    /\ quiesced
    /\ AbnormalClose(lastOp)
    /\ reconnectAttempts < policy.maxReconnectAttempts
    /\ PendingTimers(Cur) = 0

(***************************************************************************)
(* C20: when no transport ever opens, every attempt fails and the          *)
(* application only calls connect(), the manager eventually is, and stays, *)
(* in status Error with no timer outstanding and no transport left, the    *)
(* status callback (when one is registered) having been given Error last.  *)
(***************************************************************************)
ReconnectExhausted ==
    /\ status = ERROR
    /\ PendingTimers(Cur) = 0
    /\ LiveTransports(Cur) = 0
    /\ (onStatusChangeCallback => lastNotified = ERROR)

C20_EventuallyTerminalError ==
    <>(appCalls # "none") => <>[]ReconnectExhausted

C20_Witness ==
    /\ SingleConnect
    /\ onStatusChangeCallback
    /\ policy.maxReconnectAttempts = MaxAttemptsBound
    /\ reconnectAttempts = policy.maxReconnectAttempts
    /\ lastOp.op = "close"
    /\ ReconnectExhausted

(***************************************************************************)
(* C21: the validator accepts the payload of a telemetry envelope, and the *)
(* reading reaches the message callback, exactly when timestamp is a       *)
(* non-empty string, power_load_kw and fuel_consumption_lph are numbers    *)
(* and status is ON or OFF.                                                *)
(***************************************************************************)
TelemetryWithPayload(text) ==
    /\ WellFormedEnvelope(text)
    /\ text.value.type = JString("telemetry")
    /\ text.value.data.t = "object"

C21_ValidatorAcceptsExactlyWellTyped ==
    (lastOp.op = "message" /\ TelemetryWithPayload(inbound)) =>
        /\ validateTelemetryData(inbound.value.data).ok
              <=> WellTypedReading(inbound.value.data)
        /\ (MessageCalls(cbLog) # <<>>)
              <=> WellTypedReading(inbound.value.data)

(***************************************************************************)
(* C29: a step handling a telemetry envelope whose data is absent, null or *)
(* not an object invokes the error callback once (when one is registered)  *)
(* and not the message callback.                                           *)
(***************************************************************************)
C29_TelemetryWithoutPayloadIsError ==
    (/\ lastOp.op = "message"
     /\ WellFormedEnvelope(inbound)
     /\ inbound.value.type = JString("telemetry")
     /\ inbound.value.data.t # "object") =>
        /\ MessageCalls(cbLog) = <<>>
        /\ (onErrorCallback => Len(ErrorCalls(cbLog)) = 1)

(***************************************************************************)
(* C30: the checks are made in the order parse, is-object, non-empty type, *)
(* timestamp, power_load_kw, fuel_consumption_lph, status; a step handling *)
(* a message that fails one or several of them reports the reason of the   *)
(* first failing check to the error callback and gives nothing to the      *)
(* message callback.                                                       *)
(***************************************************************************)
FirstFailingCheck(text) ==
    IF ~text.parses THEN "parse"
    ELSE IF text.value.t # "object" THEN "object"
    ELSE IF ~NonEmptyString(text.value.type) THEN "type"
    ELSE IF ~TelemetryWithPayload(text) THEN "none"
    ELSE LET d == text.value.data IN
         IF ~NonEmptyString(d.timestamp) THEN "timestamp"
         ELSE IF d.power_load_kw.t # "number" THEN "power_load_kw"
         ELSE IF d.fuel_consumption_lph.t # "number" THEN "fuel_consumption_lph"
         ELSE IF d.status \notin {JString("ON"), JString("OFF")} THEN "status"
         ELSE "none"

ReasonOfCheck(check) ==
    CASE check = "parse" -> "Failed to parse message: JSON"
      [] check = "object" -> "Failed to parse message: Invalid message format"
      [] check = "type" -> "Failed to parse message: Message missing type field"
      [] check = "timestamp" -> "Invalid telemetry data: missing timestamp"
      [] check = "power_load_kw" -> "Invalid telemetry data: invalid power_load_kw"
      [] check = "fuel_consumption_lph" ->
            "Invalid telemetry data: invalid fuel_consumption_lph"
      [] check = "status" -> "Invalid telemetry data: invalid status"

C30_FirstFailingCheckReported ==
    (lastOp.op = "message" /\ FirstFailingCheck(inbound) # "none") =>
        /\ MessageCalls(cbLog) = <<>>
        /\ ErrorCalls(cbLog) = <<ErrorCall(ReasonOfCheck(FirstFailingCheck(inbound)))>>

(***************************************************************************)
(* Helpers of the properties of the API client.  The retryable failures    *)
(* as the specification of the request client states them: no response to  *)
(* a dispatched request, or a response with a status of 500 or more.       *)
(***************************************************************************)
Last(seq) == seq[Len(seq)]

RetryableFailure(outcome) ==
    /\ ~outcome.fulfilled
    /\ \/ outcome.response.received /\ outcome.response.status >= 500
       \/ ~outcome.response.received /\ outcome.request

GetCall(c) == c.method \in GetMethods

ServiceUnavailable ==
    AxiosError(Received(503, Body("", "Try again later")), TRUE,
               "Request failed with status code 503")

InternalServerError ==
    AxiosError(Received(500, NoBody), TRUE, "Request failed with status code 500")

(***************************************************************************)
(* C22: a get call whose attempts so far all failed with a retryable       *)
(* error, and that made at most maxRetries of them, goes on to the next    *)
(* attempt; when the attempt after k such failures succeeds the call       *)
(* returns the body of that response, having waited retryDelay exactly k   *)
(* times.                                                                  *)
(***************************************************************************)
C22_RetriedGetReturnsSuccess ==
    \A i \in CallIds :
        LET c == calls[i]
            n == Len(c.outcomes)
        IN (GetCall(c) /\ n >= 1
            /\ \A j \in 1..(n - 1) : RetryableFailure(c.outcomes[j])) =>
              /\ (RetryableFailure(c.outcomes[n]) /\ n <= maxRetries) =>
                    /\ c.pc \in {"waiting", "requesting"}
                    /\ c.attempts = (IF c.pc = "waiting" THEN n ELSE n + 1)
                    /\ Len(c.delays) = n
              /\ c.outcomes[n].fulfilled =>
                    /\ c.pc = "returned"
                    /\ c.result = Return(c.outcomes[n].data)
                    /\ c.attempts = n
                    /\ c.delays = [j \in 1..(n - 1) |-> retryDelay]

C22_Witness ==
    /\ calls[1].method = "getLatestReading"
    /\ calls[1].outcomes = <<ServiceUnavailable, ServiceUnavailable,
                             ServiceUnavailable, Fulfilled("readings B")>>
    /\ calls[1].result = Return("readings B")
    /\ calls[1].delays = <<1000, 1000, 1000>>

(***************************************************************************)
(* C23: a get call waits and retries only after a retryable failure (no    *)
(* response to a dispatched request, or a status of 500 or more); a first  *)
(* attempt failing with a status below 500 or before dispatch ends the     *)
(* call, raised after one attempt and no wait.                             *)
(***************************************************************************)
C23_RetryOnlyNetworkOrServerError ==
    \A i \in CallIds :
        LET c == calls[i] IN
        GetCall(c) =>
          /\ \A j \in 1..Len(c.delays) : RetryableFailure(c.outcomes[j])
          /\ (/\ Len(c.outcomes) >= 1
              /\ ~c.outcomes[1].fulfilled
              /\ ~RetryableFailure(c.outcomes[1])) =>
                 /\ c.pc = "raised"
                 /\ c.attempts = 1
                 /\ c.delays = <<>>

(***************************************************************************)
(* C24: a get call makes at most maxRetries + 1 attempts and at most       *)
(* maxRetries waits; once maxRetries + 1 attempts have failed it has       *)
(* raised the classified error of the last attempt, and it raises after    *)
(* retryable failures only then.                                           *)
(***************************************************************************)
C24_BoundedRetriesRaiseLastError ==
    \A i \in CallIds :
        LET c == calls[i]
            n == Len(c.outcomes)
        IN GetCall(c) =>
             /\ c.attempts <= maxRetries + 1
             /\ Len(c.delays) <= maxRetries
             /\ (n = maxRetries + 1 /\ ~c.outcomes[n].fulfilled) =>
                   /\ c.pc = "raised"
                   /\ c.result = Raise(rejectedResponse(c.outcomes[n]))
             /\ (c.pc = "raised" /\ RetryableFailure(c.outcomes[n])) =>
                   /\ n = maxRetries + 1
                   /\ c.attempts = maxRetries + 1
                   /\ Len(c.delays) = maxRetries

C24_Witness ==
    /\ calls[1].method = "getHistoricalData"
    /\ calls[1].pc = "raised"
    /\ calls[1].outcomes = <<ServiceUnavailable, ServiceUnavailable,
                             ServiceUnavailable, InternalServerError>>
    /\ calls[1].result.error.statusCode = Given(500)

(***************************************************************************)
(* C25: a requestOptimization call makes one request and never waits;      *)
(* when that request fails the call has raised its classified error, with  *)
(* status code 500 for a 500 response.                                     *)
(***************************************************************************)
C25_PostNeverRetried ==
    \A i \in CallIds :
        LET c == calls[i] IN
        c.method = "requestOptimization" =>
          /\ c.attempts = 1
          /\ c.delays = <<>>
          /\ Len(c.outcomes) = 1 =>
                IF c.outcomes[1].fulfilled
                THEN c.result = Return(c.outcomes[1].data)
                ELSE /\ c.pc = "raised"
                     /\ c.result = Raise(rejectedResponse(c.outcomes[1]))
                     /\ c.outcomes[1] = InternalServerError =>
                           c.result.error.statusCode = Given(500)

C25_Witness ==
    /\ calls[1].method = "requestOptimization"
    /\ calls[1].outcomes = <<InternalServerError>>
    /\ calls[1].pc = "raised"
    /\ calls[1].result.error.statusCode = Given(500)

(***************************************************************************)
(* C26: the error a call raises is of exactly one class, decided by its    *)
(* last attempt: with a response, a server error with the status of the    *)
(* response and the error and detail of its body (generic text when the    *)
(* body has none); with a request and no response, a network error with    *)
(* no status code; with neither, a request setup error.                    *)
(***************************************************************************)
ClassOf(e) ==
    IF e.statusCode.defined THEN "ServerError"
    ELSE IF e.message = "Unable to reach the server. Please check your connection."
    THEN "NetworkError"
    ELSE IF e.message = "Failed to make request" THEN "RequestSetupError"
    ELSE "unclassified"

C26_ClassificationTotalExclusive ==
    \A i \in CallIds :
        LET c == calls[i] IN
        c.pc = "raised" =>
          LET o == Last(c.outcomes)
              e == c.result.error
          IN IF o.response.received
             THEN /\ ClassOf(e) = "ServerError"
                  /\ e.statusCode = Given(o.response.status)
                  /\ e.message =
                        (IF o.response.data.present /\ o.response.data.error # ""
                         THEN o.response.data.error ELSE "An error occurred")
                  /\ e.detail =
                        (IF o.response.data.present /\ o.response.data.detail # ""
                         THEN o.response.data.detail ELSE o.message)
             ELSE IF o.request
             THEN ClassOf(e) = "NetworkError" /\ ~e.statusCode.defined
             ELSE ClassOf(e) = "RequestSetupError" /\ e.detail = o.message

C26_Witness ==
    /\ calls[1].method = "requestOptimization"
    /\ calls[1].pc = "raised"
    /\ ~Last(calls[1].outcomes).response.received
    /\ ~Last(calls[1].outcomes).request
    /\ ClassOf(calls[1].result.error) = "RequestSetupError"

(***************************************************************************)
(* C27: with several calls in flight, a step of one call leaves every      *)
(* other call as it was, and each call has its own budget: a get call has  *)
(* maxRetries retries less the retries it made itself, makes at most       *)
(* maxRetries + 1 attempts, returns the body of its own last response and  *)
(* raises the error of its own last attempt, after retryable failures only *)
(* when its own maxRetries + 1 attempts are made.                          *)
(***************************************************************************)
OwnBudget(c) ==
    /\ c.attempts <= maxRetries + 1
    /\ GetCall(c) => c.retries = maxRetries - (c.attempts - 1)
    /\ c.pc = "returned" => c.result = Return(Last(c.outcomes).data)
    /\ c.pc = "raised" =>
          /\ c.result = Raise(rejectedResponse(Last(c.outcomes)))
          /\ (GetCall(c) /\ RetryableFailure(Last(c.outcomes))) =>
                Len(c.outcomes) = maxRetries + 1

C27_ConcurrentCallsIndependent ==
    /\ [][\A i, j \in CallIds :
            (i # j /\ calls'[i] # calls[i]) => calls'[j] = calls[j]]_vars
    /\ [](\A i \in CallIds : OwnBudget(calls[i]))

C27_Witness ==
    /\ calls[1].pc = "returned"
    /\ calls[1].outcomes = <<ServiceUnavailable, Fulfilled("readings A")>>
    /\ calls[2].pc = "raised"
    /\ Len(calls[2].outcomes) = maxRetries + 1
    /\ calls[2].retries = 0

(***************************************************************************)
(* C31: the close event of a transport that disconnect() closed, delivered *)
(* after a later connect() while the manager holds the transport of that   *)
(* connect(), leaves the handle, the status, the timer and the attempt     *)
(* counter as they are, schedules no reconnect and invokes no callback.    *)
(***************************************************************************)
LateClose(op) ==
    op.op = "close" /\ ~op.held /\ op.pre \in {"closingO", "failedC"}

C31_LateCloseLeavesNewConnection ==
    [][(LateClose(lastOp') /\ ~quiesced /\ ws \in {"connecting", "open"}) =>
          /\ ws' = ws
          /\ status' = status
          /\ reconnectTimeout' = reconnectTimeout
          /\ reconnectAttempts' = reconnectAttempts
          /\ scheduled' = <<>>
          /\ cbLog' = <<>>]_vars

(***************************************************************************)
(* C32: whenever the status is Connected, the manager holds an open        *)
(* transport and no reconnect timer is outstanding.                        *)
(***************************************************************************)
C32_ConnectedHoldsOpenTransport ==
    status = CONNECTED => (ws = "open" /\ PendingTimers(Cur) = 0)

(***************************************************************************)
(* C33: the attempt counter stays within 0..maxReconnectAttempts; a step   *)
(* raises it only by one, from a value below the maximum, scheduling a     *)
(* reconnect; a step lowers it only to 0, and only a step handling an open *)
(* event or a disconnect() does.                                           *)
(***************************************************************************)
C33_AttemptCounterBounded ==
    /\ [](reconnectAttempts \in 0..policy.maxReconnectAttempts)
    /\ [][/\ (reconnectAttempts' > reconnectAttempts =>
                  /\ reconnectAttempts' = reconnectAttempts + 1
                  /\ reconnectAttempts < policy.maxReconnectAttempts
                  /\ Len(scheduled') = 1
                  /\ scheduled'[1].attempt = reconnectAttempts)
           /\ (reconnectAttempts' < reconnectAttempts =>
                  /\ reconnectAttempts' = 0
                  /\ lastOp'.op \in {"open", "disconnect"})]_vars

C33_Witness ==
    /\ reconnectAttempts = policy.maxReconnectAttempts
    /\ reconnectAttempts > 0
    /\ AbnormalClose(lastOp)
    /\ shouldReconnect
    /\ scheduled = <<>>
    /\ status = ERROR

(***************************************************************************)
(* C34: a disconnect() that directly follows a disconnect(), or that is    *)
(* called on an instance never connected, invokes no callback and leaves   *)
(* timer, transport handle, status and attempt counter as they are, with   *)
(* should-reconnect false; the repeated call closes no transport and       *)
(* leaves should-reconnect as the first call left it.                      *)
(***************************************************************************)
C34_DisconnectIdempotent ==
    [][(lastOp'.op = "disconnect" /\ (lastOp.op = "disconnect" \/ appCalls = "none")) =>
          /\ cbLog' = <<>>
          /\ statusWrites' = <<>>
          /\ ~shouldReconnect'
          /\ (lastOp.op = "disconnect" => shouldReconnect' = shouldReconnect)
          /\ reconnectTimeout' = reconnectTimeout
          /\ ws' = ws
          /\ status' = status
          /\ reconnectAttempts' = reconnectAttempts
          /\ orphans' = orphans
          /\ leakedTimers' = leakedTimers]_vars

C34_Witness ==
    /\ again
    /\ onStatusChangeCallback
    /\ orphans["closingO"] > 0
    /\ status = DISCONNECTED
    /\ cbLog = <<>>

(***************************************************************************)
(* C35: with maxReconnectAttempts = 0 no step schedules a reconnect, no    *)
(* timer is outstanding, the counter stays 0 and the status is never       *)
(* Reconnecting; an abnormal closure or a failure to open with             *)
(* should-reconnect true leaves the status Error.                          *)
(***************************************************************************)
C35_ZeroAttemptsNeverSchedules ==
    policy.maxReconnectAttempts = 0 =>
        /\ scheduled = <<>>
        /\ PendingTimers(Cur) = 0
        /\ reconnectAttempts = 0
        /\ status # RECONNECTING
        /\ ((AbnormalClose(lastOp) \/ OpenFailure(lastOp)) /\ shouldReconnect =>
               status = ERROR)

C35_Witness ==
    /\ policy.maxReconnectAttempts = 0
    /\ SingleConnect
    /\ AbnormalClose(lastOp)
    /\ lastOp.held
    /\ status = ERROR
    /\ ws = "null"

(***************************************************************************)
(* C36: a step handling a text that is an envelope with a non-empty type   *)
(* other than telemetry and error invokes no callback and changes no field *)
(* of the manager, no transport and no timer.                              *)
(***************************************************************************)
OtherEnvelope(text) ==
    /\ WellFormedEnvelope(text)
    /\ text.value.type \notin {JString("telemetry"), JString("error")}

C36_OtherEnvelopeIgnored ==
    [][(lastOp'.op = "message" /\ OtherEnvelope(inbound')) =>
          /\ cbLog' = <<>>
          /\ statusWrites' = <<>>
          /\ scheduled' = <<>>
          /\ created' = 0
          /\ UNCHANGED <<ws, status, reconnectAttempts, reconnectTimeout,
                         shouldReconnect, policy, onMessageCallback,
                         onStatusChangeCallback, onErrorCallback, orphans,
                         leakedTimers>>]_vars

C36_Witness ==
    /\ lastOp.op = "message"
    /\ inbound = Text(JEnvelope(JString("heartbeat"), ValidReading))
    /\ onErrorCallback
    /\ status = CONNECTED
    /\ cbLog = <<>>

(***************************************************************************)
(* C37: a healthCheck call makes one request, never waits and never        *)
(* raises: once the request is settled the call has returned, true when    *)
(* the request was fulfilled and false when it failed, whatever the class  *)
(* of the failure.                                                         *)
(***************************************************************************)
C37_HealthCheckNeverRaises ==
    \A i \in CallIds :
        LET c == calls[i] IN
        c.method = "healthCheck" =>
          /\ c.attempts = 1
          /\ c.delays = <<>>
          /\ c.pc \in {"requesting", "returned"}
          /\ (c.pc = "requesting") = (c.outcomes = <<>>)
          /\ Len(c.outcomes) = 1 =>
                /\ c.pc = "returned"
                /\ c.result = Return(IF c.outcomes[1].fulfilled
                                     THEN "true" ELSE "false")
                /\ ~c.outcomes[1].fulfilled =>
                      ClassOf(rejectedResponse(c.outcomes[1])) \in
                          {"ServerError", "NetworkError", "RequestSetupError"}

C37_Witness ==
    /\ calls[1].method = "healthCheck"
    /\ calls[1].pc = "returned"
    /\ Len(calls[1].outcomes) = 1
    /\ ~calls[1].outcomes[1].fulfilled
    /\ ClassOf(rejectedResponse(calls[1].outcomes[1])) = "RequestSetupError"
    /\ calls[1].result = Return("false")

====
